---------------------------- MODULE Spec2Model ----------------------------
(***************************************************************************)
(* The fixture corpus test-fixtures/ruff-issues.py and                     *)
(* test-fixtures/mypy-issues.py.                                           *)
(*                                                                         *)
(* Part 1 models what the two files do when Python runs them: the          *)
(* top-level statements of each module executed in order, and every        *)
(* function the files define, called with small inputs.                    *)
(* Part 2 models what the files hold as text: the examples, the inline     *)
(* comments recording the expected diagnostic, and the constructs the      *)
(* annotated lines really contain.                                         *)
(***************************************************************************)
EXTENDS Integers, Sequences, FiniteSets, TLC

VARIABLES
    pc,         \* pc[m]: number of top-level statements of module m already run
    bound,      \* bound[m]: the names bound in module m's namespace
    vals,       \* vals[n]: value of the data globals of the ruff module
    heap,       \* the list objects alive; a list's identity is its index
    defaults,   \* identity of mutable_default's default list (0: not created)
    stdout,     \* the lines written to standard output, rendered as text
    loadCalls,  \* loadCalls[m]: calls of file-defined functions made by m's top level
    loadExc,    \* loadExc[m]: exception raised by m's top level ("none")
    last,       \* the last call made from outside: function, argument, outcome
    noArgCalls, \* calls of mutable_default made without an argument
    cursor,     \* cursor[f]: number of examples of file f the tool has analysed
    diags       \* diags[f]: the diagnostics reported for file f so far

vars == <<pc, bound, vals, heap, defaults, stdout, loadCalls, loadExc, last,
          noArgCalls, cursor, diags>>

\* what running the files changes, and what analysing them changes
runVars == <<pc, bound, vals, heap, defaults, stdout, loadCalls, loadExc, last,
             noArgCalls>>
corpusVars == <<cursor, diags>>

\* ------------------------------------------------------------------ bounds
\* longest list a call of mutable_default may produce
MaxLen == 3
\* list objects alive at once (the default list and the callers' lists)
MaxObjs == 2
\* lines written to standard output
MaxOut == 1

Modules == {"ruff", "mypy"}

\* ------------------------------------------------------------ Python values
\* A value is <<tag, payload>>; the tag fixes the payload's type.
PyNone == <<"none", 0>>
NoValue == <<"novalue", 0>>
PyInt(n) == <<"int", n>>
PyStr(s) == <<"str", s>>
PyBool(b) == <<"bool", b>>
PyRef(i) == <<"ref", i>>
PyObj(c) == <<"obj", c>>

\* Strings are sequences of characters over a small alphabet.
UpperChar(c) ==
    CASE c = "a" -> "A"
      [] c = "b" -> "B"
      [] OTHER -> c

\* str.upper()
Upper(s) == [i \in DOMAIN s |-> UpperChar(s[i])]

DigitChar(d) ==
    CASE d = 0 -> "0" [] d = 1 -> "1" [] d = 2 -> "2" [] d = 3 -> "3"
      [] d = 4 -> "4" [] d = 5 -> "5" [] d = 6 -> "6" [] d = 7 -> "7"
      [] d = 8 -> "8" [] d = 9 -> "9"

RECURSIVE Digits(_)
Digits(n) == IF n < 10 THEN <<DigitChar(n)>>
             ELSE Append(Digits(n \div 10), DigitChar(n % 10))

\* str(x) for an int
IntToStr(n) == IF n < 0 THEN <<"-">> \o Digits(-n) ELSE Digits(n)

\* the text print() writes for a value
Render(v) ==
    CASE v[1] = "str" -> v[2]
      [] v[1] = "int" -> IntToStr(v[2])
      [] v[1] = "none" -> <<"N", "o", "n", "e">>
      [] OTHER -> <<"<", v[1], ">">>

\* The outcome of running a function body: what it returns or raises, and the
\* heap and standard output it leaves.
Outcome(r, e, h, o) == [ret |-> r, exc |-> e, heap |-> h, out |-> o]
Return(r, h, o) == Outcome(r, "none", h, o)
Raise(e, h, o) == Outcome(NoValue, e, h, o)

\* print(v)
PyPrint(v, h, o) == Return(PyNone, h, Append(o, Render(v)))


\* ---------------------------------------------------------- object model
\* (variant: MyClass instances do have an attribute "nonexistent")
ClassAttrs_WithNonexistent(c) ==
    CASE c = "MyClass" -> {"value", "nonexistent"}
      [] c = "badlyNamedClass" -> {"BadAttribute", "BadMethodName"}
      [] c \in {"Base", "Derived"} -> {"method"}
      [] OTHER -> {}

\* The attributes an instance of each class of the fixtures has.
ClassAttrs(c) ==
    CASE c = "MyClass" -> {"value"}
      [] c = "Circle" -> {}
      [] c = "badlyNamedClass" -> {"BadAttribute", "BadMethodName"}
      [] c = "Base" -> {"method"}
      [] c = "Derived" -> {"method"}
      [] OTHER -> {}

\* hasattr(v, a): True for an attribute of an instance, or of a built-in type
HasAttr(v, a) ==
    CASE v[1] = "obj" -> a \in ClassAttrs(v[2])
      [] v[1] = "str" -> a \in {"upper"}
      [] v[1] = "ref" -> a \in {"append"}
      [] OTHER -> FALSE

\* ------------------------------------------- functions of ruff-issues.py
badly_formatted_function(x, y, z, h, o) ==
    LET a == 1
        b == 2
        c == 3
    IN Return(PyInt(a + b + c), h, o)

badlyNamedClass_init(h, o) == Return(PyObj("badlyNamedClass"), h, o)

BadMethodName(h, o) == Return(PyNone, h, o)

unused_variable_function(h, o) ==
    LET x == 1 IN Return(PyInt(x), h, o)

\* the print after the return is never run
unreachable_code(h, o) == Return(PyInt(1), h, o)

missing_blank_lines(h, o) == Return(PyNone, h, o)

\* three comparisons, each followed by pass
comparison_issues(x, h, o) == Return(PyNone, h, o)

fstring_issues(h, o) ==
    LET greeting == <<"h", "e", "l", "l", "o">>
    IN Return(PyStr(greeting), h, o)

\* square = lambda x: x * x
square(x, h, o) ==
    IF x[1] = "int" THEN Return(PyInt(x[2] * x[2]), h, o)
    ELSE Raise("TypeError", h, o)

bare_except_handler(h, o) == Return(PyNone, h, o)

\* (variant: the append is missing)
mutable_default_NoAppend(items, h, o) ==
    IF HasAttr(items, "append") THEN Return(items, h, o)
    ELSE Raise("AttributeError", h, o)

\* items.append(1); return items. items refers to a list of the heap.
mutable_default(items, h, o) ==
    IF HasAttr(items, "append")
    THEN Return(items, [h EXCEPT ![items[2]] = Append(@, 1)], o)
    ELSE Raise("AttributeError", h, o)

\* assert (1, 2): a non-empty tuple is true
assert_tuple(h, o) ==
    IF Len(<<1, 2>>) > 0 THEN Return(PyNone, h, o)
    ELSE Raise("AssertionError", h, o)

\* ------------------------------------------- functions of mypy-issues.py
\* (variant: the value returned is the string the annotation promises)
returns_wrong_type_Honoured(h, o) == Return(PyStr(<<"4", "2">>), h, o)

returns_wrong_type(h, o) == Return(PyInt(42), h, o)

expects_string(s, h, o) == PyPrint(s, h, o)

call_with_wrong_type(h, o) ==
    LET r == expects_string(PyInt(123), h, o)
    IN Return(PyNone, r.heap, r.out)

\* the body ends without a return statement
missing_return(h, o) ==
    LET x == 5 IN Return(PyNone, h, o)

incompatible_assignment(h, o) == Return(PyNone, h, o)

\* return x.upper()
none_issues(x, h, o) ==
    IF HasAttr(x, "upper") THEN Return(PyStr(Upper(x[2])), h, o)
    ELSE Raise("AttributeError", h, o)

\* the list is local to the call
list_type_issues(h, o) == Return(PyNone, h, o)

dict_type_issues(h, o) == Return(PyNone, h, o)

\* return x + 1
union_issues(x, h, o) ==
    IF x[1] = "int" THEN Return(PyInt(x[2] + 1), h, o)
    ELSE Raise("TypeError", h, o)

callable_issues(h, o) == Return(PyNone, h, o)

MyClass_init(h, o) == Return(PyObj("MyClass"), h, o)

\* print(obj.nonexistent): the attribute is looked up before print is called
attribute_issues(h, o) ==
    LET obj == MyClass_init(h, o).ret
    IN IF HasAttr(obj, "nonexistent") THEN PyPrint(PyNone, h, o)
       ELSE Raise("AttributeError", h, o)

\* Base.method: return str(x)
Base_method(x, h, o) == Return(PyStr(Render(x)), h, o)

\* Derived.method: return len(x)
Derived_method(x, h, o) ==
    IF x[1] = "str" THEN Return(PyInt(Len(x[2])), h, o)
    ELSE Raise("TypeError", h, o)

\* result = identity(42)
generic_issues(h, o) == Return(PyNone, h, o)

\* Drawable.draw: the body is "..."
Drawable_draw(h, o) == Return(PyNone, h, o)

Circle_init(h, o) == Return(PyObj("Circle"), h, o)

\* shape.draw()
draw_shape(shape, h, o) ==
    IF HasAttr(shape, "draw") THEN Return(PyNone, h, o)
    ELSE Raise("AttributeError", h, o)

protocol_violation(h, o) ==
    LET c == Circle_init(h, o).ret
        r == draw_shape(c, h, o)
    IN IF r.exc = "none" THEN Return(PyNone, r.heap, r.out) ELSE r

literal_issues(h, o) == Return(PyNone, h, o)

\* the dict is local to the call; a TypedDict is a plain dict at run time
typeddict_issues(h, o) == Return(PyNone, h, o)

\* def process(x): return x
process(x, h, o) == Return(x, h, o)

variance_issues(h, o) == Return(PyNone, h, o)

\* A call of the function (or method, or class) named f with argument a.
Invoke(f, a, h, o) ==
    CASE f = "badly_formatted_function" ->
             \* three positional parameters without defaults
             IF a[1] = "args"
             THEN badly_formatted_function(a[2][1], a[2][2], a[2][3], h, o)
             ELSE Raise("TypeError", h, o)
      [] f = "badlyNamedClass" -> badlyNamedClass_init(h, o)
      [] f = "badlyNamedClass.BadMethodName" -> BadMethodName(h, o)
      [] f = "unused_variable_function" -> unused_variable_function(h, o)
      [] f = "unreachable_code" -> unreachable_code(h, o)
      [] f = "missing_blank_lines" -> missing_blank_lines(h, o)
      [] f = "comparison_issues" -> comparison_issues(a, h, o)
      [] f = "fstring_issues" -> fstring_issues(h, o)
      [] f = "square" -> square(a, h, o)
      [] f = "bare_except_handler" -> bare_except_handler(h, o)
      [] f = "mutable_default" -> mutable_default(a, h, o)
      [] f = "assert_tuple" -> assert_tuple(h, o)
      [] f = "returns_wrong_type" -> returns_wrong_type(h, o)
      [] f = "expects_string" -> expects_string(a, h, o)
      [] f = "call_with_wrong_type" -> call_with_wrong_type(h, o)
      [] f = "missing_return" -> missing_return(h, o)
      [] f = "incompatible_assignment" -> incompatible_assignment(h, o)
      [] f = "none_issues" -> none_issues(a, h, o)
      [] f = "list_type_issues" -> list_type_issues(h, o)
      [] f = "dict_type_issues" -> dict_type_issues(h, o)
      [] f = "union_issues" -> union_issues(a, h, o)
      [] f = "callable_issues" -> callable_issues(h, o)
      [] f = "MyClass" -> MyClass_init(h, o)
      [] f = "attribute_issues" -> attribute_issues(h, o)
      [] f = "Base.method" -> Base_method(a, h, o)
      [] f = "Derived.method" -> Derived_method(a, h, o)
      [] f = "generic_issues" -> generic_issues(h, o)
      [] f = "Drawable.draw" -> Drawable_draw(h, o)
      [] f = "Circle" -> Circle_init(h, o)
      [] f = "draw_shape" -> draw_shape(a, h, o)
      [] f = "protocol_violation" -> protocol_violation(h, o)
      [] f = "literal_issues" -> literal_issues(h, o)
      [] f = "typeddict_issues" -> typeddict_issues(h, o)
      [] f = "process" -> process(a, h, o)
      [] f = "variance_issues" -> variance_issues(h, o)

\* ------------------------------------------------------- dict displays
\* A dict is the sequence of its <<key, value>> entries in insertion order.
\* (variant: a key already there keeps its first value)
DictSet_KeepFirst(d, k, v) ==
    IF \E i \in DOMAIN d : d[i][1] = k THEN d ELSE Append(d, <<k, v>>)

\* d[k] = v: a key already there keeps its place and takes the new value.
DictSet(d, k, v) ==
    IF \E i \in DOMAIN d : d[i][1] = k
    THEN [i \in DOMAIN d |-> IF d[i][1] = k THEN <<k, v>> ELSE d[i]]
    ELSE Append(d, <<k, v>>)

\* {k1: v1, k2: v2, ...}: the entries are stored from left to right
RECURSIVE DictDisplay(_)
DictDisplay(pairs) ==
    IF pairs = <<>> THEN <<>>
    ELSE LET n == Len(pairs)
         IN DictSet(DictDisplay(SubSeq(pairs, 1, n - 1)), pairs[n][1], pairs[n][2])

\* d[k], or NoValue when k is no key of d
DictGet(d, k) ==
    IF \E i \in DOMAIN d : d[i][1] = k
    THEN (CHOOSE e \in {d[i] : i \in DOMAIN d} : e[1] = k)[2]
    ELSE NoValue

\* the entries written in the display of duplicate_dict
DuplicateDictPairs == << <<"key", PyInt(1)>>, <<"key", PyInt(2)>> >>

\* ------------------------------------------------- top-level statements
\* A top-level statement: its line, its kind, the names it binds, the calls
\* <<callee, argument>> it makes when it runs, and the default it evaluates.
Stmt(l, k, b, c, d) == [line |-> l, kind |-> k, binds |-> b, calls |-> c, default |-> d]
Imp(l, b) == Stmt(l, "import", b, <<>>, "none")
\* (variant: the function is also called, without arguments, where it is defined)
Def_CalledAtLoad(l, n) == Stmt(l, "def", {n}, << <<n, NoValue>> >>, "none")
Def(l, n) == Stmt(l, "def", {n}, <<>>, "none")
Cls(l, n) == Stmt(l, "class", {n}, <<>>, "none")
Asg(l, n) == Stmt(l, "assign", {n}, <<>>, "none")

RuffTopLevel ==
    << Imp(4, {"collections.*"}),
       Def(8, "badly_formatted_function"),
       Cls(18, "badlyNamedClass"),
       Def(26, "unused_variable_function"),
       Def(32, "unreachable_code"),
       Def(38, "missing_blank_lines"),
       Asg(41, "CONSTANT"),
       Asg(42, "constant_lowercase"),
       Def(46, "comparison_issues"),
       Def(56, "fstring_issues"),
       Asg(63, "square"),
       Def(67, "bare_except_handler"),
       Stmt(75, "def", {"mutable_default"}, <<>>, "list"),
       Def(81, "assert_tuple"),
       Asg(86, "duplicate_dict") >>

MypyTopLevel ==
    << Imp(4, {"List", "Dict", "Optional", "Union", "Callable"}),
       Def(8, "returns_wrong_type"),
       Def(13, "expects_string"),
       Def(17, "call_with_wrong_type"),
       Def(22, "missing_return"),
       Def(28, "incompatible_assignment"),
       Def(34, "none_issues"),
       Def(39, "list_type_issues"),
       Def(45, "dict_type_issues"),
       Def(51, "union_issues"),
       Def(56, "callable_issues"),
       Cls(61, "MyClass"),
       Def(66, "attribute_issues"),
       Cls(72, "Base"),
       Cls(77, "Derived"),
       Def(83, "generic_issues"),
       Imp(95, {"Protocol"}),
       Cls(98, "Drawable"),
       Cls(102, "Circle"),
       Def(106, "draw_shape"),
       Def(110, "protocol_violation"),
       Imp(116, {"Literal"}),
       Def(119, "literal_issues"),
       Imp(124, {"TypedDict"}),
       Cls(127, "Person"),
       Def(132, "typeddict_issues"),
       Imp(138, {"overload"}),
       Stmt(142, "def", {"process"}, << <<"overload", PyNone>> >>, "none"),
       Stmt(144, "def", {"process"}, << <<"overload", PyNone>> >>, "none"),
       Def(147, "process"),
       Def(154, "variance_issues") >>

TopLevel(m) == IF m = "ruff" THEN RuffTopLevel ELSE MypyTopLevel

\* the functions and classes a module defines
DefinedIn(m) ==
    UNION {TopLevel(m)[i].binds :
             i \in {j \in DOMAIN TopLevel(m) : TopLevel(m)[j].kind \in {"def", "class"}}}

\* the functions and classes the two files define
FileDefined == UNION {DefinedIn(m) : m \in Modules}

\* the globals of ruff-issues.py that hold data
DataGlobals == {"CONSTANT", "constant_lowercase", "square", "duplicate_dict"}

\* the value the right-hand side of a top-level assignment evaluates to
AssignedValue(n) ==
    CASE n = "CONSTANT" -> PyStr(<<"v", "a", "l", "u", "e">>)
      [] n = "constant_lowercase" -> PyStr(<<"b", "a", "d">>)
      [] n = "square" -> <<"function", "square">>
      [] n = "duplicate_dict" -> <<"dict", DictDisplay(DuplicateDictPairs)>>

\* The calls a statement makes, run in order: calls of functions the files
\* define run the function's body; the others (typing.overload) touch nothing
\* the files can see.  n counts the calls of file-defined functions.
RECURSIVE RunCalls(_, _, _, _)
RunCalls(cs, h, o, n) ==
    IF cs = <<>> THEN [exc |-> "none", heap |-> h, out |-> o, n |-> n]
    ELSE IF Head(cs)[1] \in FileDefined
         THEN LET r == Invoke(Head(cs)[1], Head(cs)[2], h, o)
              IN IF r.exc # "none"
                 THEN [exc |-> r.exc, heap |-> r.heap, out |-> r.out, n |-> n + 1]
                 ELSE RunCalls(Tail(cs), r.heap, r.out, n + 1)
         ELSE RunCalls(Tail(cs), h, o, n)

Loaded(m) == pc[m] = Len(TopLevel(m)) /\ loadExc[m] = "none"

\* The interpreter runs the next top-level statement of module m.
LoadStep(m) ==
    /\ pc[m] < Len(TopLevel(m))
    /\ loadExc[m] = "none"
    /\ LET s == TopLevel(m)[pc[m] + 1]
           r == RunCalls(s.calls, heap, stdout, 0)
           ok == r.exc = "none"
           alloc == ok /\ s.default = "list"
       IN /\ pc' = [pc EXCEPT ![m] = @ + 1]
          /\ loadExc' = [loadExc EXCEPT ![m] = r.exc]
          /\ loadCalls' = [loadCalls EXCEPT ![m] = @ + r.n]
          /\ stdout' = r.out
          /\ heap' = IF alloc THEN Append(r.heap, <<>>) ELSE r.heap
          /\ defaults' = IF alloc THEN Len(r.heap) + 1 ELSE defaults
          /\ bound' = IF ok THEN [bound EXCEPT ![m] = @ \cup s.binds] ELSE bound
          /\ vals' = IF ok /\ s.kind = "assign"
                     THEN [n \in DataGlobals |->
                             IF n \in s.binds THEN AssignedValue(n) ELSE vals[n]]
                     ELSE vals
    /\ UNCHANGED <<last, noArgCalls, cursor, diags>>

\* ------------------------------------------------------------- calls
RuffFunctions ==
    {"badly_formatted_function", "badlyNamedClass", "badlyNamedClass.BadMethodName",
     "unused_variable_function", "unreachable_code", "missing_blank_lines",
     "comparison_issues", "fstring_issues", "square", "bare_except_handler",
     "mutable_default", "assert_tuple"}

ModuleOf(f) == IF f \in RuffFunctions THEN "ruff" ELSE "mypy"

\* the arguments the calls are tried with
StrArgs == {<<>>, <<"a">>, <<"a", "B">>}
IntArgs == {-1, 0, 41}
\* the contents a caller's own list starts with
FreshLists == {<<2>>}

\* A caller outside the files calls f(a) once f's module is loaded.
Call(f, a) ==
    /\ Loaded(ModuleOf(f))
    /\ LET r == Invoke(f, a, heap, stdout)
       IN /\ Len(r.out) <= MaxOut
          /\ heap' = r.heap
          /\ stdout' = r.out
          /\ last' = [fn |-> f, arg |-> a, ret |-> r.ret, exc |-> r.exc]
    /\ UNCHANGED <<pc, bound, vals, defaults, loadCalls, loadExc, noArgCalls, cursor, diags>>

Call_badly_formatted_function ==
    \E x \in {PyInt(0), PyInt(1)} :
        Call("badly_formatted_function", <<"args", <<x, PyNone, PyNone>>>>)
Call_badlyNamedClass == Call("badlyNamedClass", NoValue)
Call_BadMethodName == Call("badlyNamedClass.BadMethodName", NoValue)
Call_unused_variable_function == Call("unused_variable_function", NoValue)
Call_unreachable_code == Call("unreachable_code", NoValue)
Call_missing_blank_lines == Call("missing_blank_lines", NoValue)
Call_comparison_issues ==
    \E x \in {PyNone, PyBool(TRUE), PyInt(1)} : Call("comparison_issues", x)
Call_fstring_issues == Call("fstring_issues", NoValue)
Call_square ==
    \E x \in {PyInt(n) : n \in IntArgs} \cup {PyStr(<<"a">>)} : Call("square", x)
Call_bare_except_handler == Call("bare_except_handler", NoValue)
Call_assert_tuple == Call("assert_tuple", NoValue)

\* mutable_default(): items is bound to the default list
Call_mutable_default_NoArg ==
    /\ Loaded("ruff")
    /\ Len(heap[defaults]) < MaxLen
    /\ LET r == Invoke("mutable_default", PyRef(defaults), heap, stdout)
       IN /\ heap' = r.heap
          /\ stdout' = r.out
          /\ last' = [fn |-> "mutable_default", arg |-> NoValue,
                      ret |-> r.ret, exc |-> r.exc]
    /\ noArgCalls' = noArgCalls + 1
    /\ UNCHANGED <<pc, bound, vals, defaults, loadCalls, loadExc, cursor, diags>>

\* mutable_default(x), x a list the caller holds: one it made itself before,
\* or the default list, once a call without an argument has returned it
Call_mutable_default_With(i) ==
    /\ Loaded("ruff")
    /\ i \in DOMAIN heap
    /\ i = defaults => noArgCalls > 0
    /\ Len(heap[i]) < MaxLen
    /\ LET r == Invoke("mutable_default", PyRef(i), heap, stdout)
       IN /\ heap' = r.heap
          /\ stdout' = r.out
          /\ last' = [fn |-> "mutable_default", arg |-> PyRef(i),
                      ret |-> r.ret, exc |-> r.exc]
    /\ UNCHANGED <<pc, bound, vals, defaults, loadCalls, loadExc, noArgCalls, cursor, diags>>

\* mutable_default(x), x a list the caller has just made with contents c
Call_mutable_default_Fresh(c) ==
    /\ Loaded("ruff")
    /\ Len(heap) < MaxObjs
    /\ Len(c) < MaxLen
    /\ LET h1 == Append(heap, c)
           r == Invoke("mutable_default", PyRef(Len(h1)), h1, stdout)
       IN /\ heap' = r.heap
          /\ stdout' = r.out
          /\ last' = [fn |-> "mutable_default", arg |-> PyRef(Len(h1)),
                      ret |-> r.ret, exc |-> r.exc]
    /\ UNCHANGED <<pc, bound, vals, defaults, loadCalls, loadExc, noArgCalls, cursor, diags>>

\* mutable_default(None)
Call_mutable_default_None == Call("mutable_default", PyNone)

Call_returns_wrong_type == Call("returns_wrong_type", NoValue)
Call_expects_string ==
    \E s \in {PyStr(<<"a">>), PyInt(123)} : Call("expects_string", s)
Call_call_with_wrong_type == Call("call_with_wrong_type", NoValue)
Call_missing_return == Call("missing_return", NoValue)
Call_incompatible_assignment == Call("incompatible_assignment", NoValue)
Call_none_issues ==
    \E x \in {PyStr(s) : s \in StrArgs} \cup {PyNone} : Call("none_issues", x)
Call_list_type_issues == Call("list_type_issues", NoValue)
Call_dict_type_issues == Call("dict_type_issues", NoValue)
Call_union_issues ==
    \E x \in {PyInt(n) : n \in IntArgs} \cup {PyStr(s) : s \in StrArgs} :
        Call("union_issues", x)
Call_callable_issues == Call("callable_issues", NoValue)
Call_MyClass == Call("MyClass", NoValue)
Call_attribute_issues == Call("attribute_issues", NoValue)
Call_Base_method == \E x \in {PyInt(n) : n \in IntArgs} : Call("Base.method", x)
Call_Derived_method ==
    \E x \in {PyStr(<<"a", "B">>), PyInt(0)} : Call("Derived.method", x)
Call_generic_issues == Call("generic_issues", NoValue)
Call_Drawable_draw == Call("Drawable.draw", NoValue)
Call_Circle == Call("Circle", NoValue)
Call_draw_shape == \E x \in {PyObj("Circle"), PyNone} : Call("draw_shape", x)
Call_protocol_violation == Call("protocol_violation", NoValue)
Call_literal_issues == Call("literal_issues", NoValue)
Call_typeddict_issues == Call("typeddict_issues", NoValue)
Call_process ==
    \E x \in {PyNone, PyInt(0), PyStr(<<"a">>)} : Call("process", x)
Call_variance_issues == Call("variance_issues", NoValue)

\* ================================================= the files as text
Files == {"ruff", "mypy"}

\* An example: its name, the line of the header comment that introduces it
\* (0: none), and the first and last line of its snippet.
Ex(n, h, a, b) == [name |-> n, header |-> h, first |-> a, last |-> b]

RuffExamples ==
    << Ex("star_import", 0, 4, 4),
       Ex("line_too_long", 0, 6, 6),
       Ex("badly_formatted_function", 0, 8, 15),
       Ex("badlyNamedClass", 0, 18, 23),
       Ex("unused_variable_function", 0, 26, 29),
       Ex("unreachable_code", 0, 32, 34),
       Ex("missing_blank_lines", 0, 37, 39),
       Ex("constant_lowercase", 0, 41, 42),
       Ex("comparison_issues", 45, 46, 52),
       Ex("fstring_issues", 55, 56, 59),
       Ex("square", 62, 63, 63),
       Ex("bare_except_handler", 66, 67, 71),
       Ex("mutable_default", 74, 75, 77),
       Ex("assert_tuple", 80, 81, 82),
       Ex("duplicate_dict", 85, 86, 89) >>

MypyExamples ==
    << Ex("returns_wrong_type", 7, 8, 9),
       Ex("call_with_wrong_type", 12, 13, 18),
       Ex("missing_return", 21, 22, 24),
       Ex("incompatible_assignment", 27, 28, 30),
       Ex("none_issues", 33, 34, 35),
       Ex("list_type_issues", 38, 39, 41),
       Ex("dict_type_issues", 44, 45, 47),
       Ex("union_issues", 50, 51, 52),
       Ex("callable_issues", 55, 56, 57),
       Ex("attribute_issues", 60, 61, 68),
       Ex("incompatible_override", 71, 72, 79),
       Ex("generic_issues", 82, 83, 91),
       Ex("protocol_violation", 94, 95, 112),
       Ex("literal_issues", 115, 116, 120),
       Ex("typeddict_issues", 123, 124, 134),
       Ex("process", 137, 138, 148),
       Ex("variance_issues", 151, 154, 156) >>

Examples(f) == IF f = "ruff" THEN RuffExamples ELSE MypyExamples

\* A comment inside a snippet: its line, the diagnostic kind written before
\* the colon (a rule code, or "error"; "" when the comment names none), and the
\* message fragment.
Note(l, g, m) == [line |-> l, tag |-> g, msg |-> m]

RuffAnnotations ==
    << Note(4, "F403", "Star import"),
       Note(6, "E501", "Line too long"),
       Note(8, "E251", "Missing whitespace around parameter equals"),
       Note(10, "E225", "Missing whitespace around operator"),
       Note(11, "E221", "Multiple spaces before operator"),
       Note(12, "E222", "Missing space after operator"),
       Note(13, "E225", "Missing whitespace around comparison"),
       Note(15, "E225", "Missing whitespace around operator"),
       Note(18, "N801", "Class name should use CapWords convention"),
       Note(20, "N815", "Mixed case variable in class scope"),
       Note(22, "N802", "Function name should be lowercase"),
       Note(27, "F841", "Local variable is assigned but never used"),
       Note(34, "F821", "unreachable code after return"),
       Note(37, "E302", "Expected 2 blank lines, found 1"),
       Note(42, "N816", "Variable in module scope should be UPPER_CASE"),
       Note(47, "E711", "Comparison to None should be 'is None'"),
       Note(49, "E712", "Comparison to True should be 'if x:' or 'if x is True:'"),
       Note(51, "E721", "Use isinstance() instead of type comparison"),
       Note(58, "F541", "f-string without placeholders"),
       Note(63, "E731", "Do not assign a lambda expression, use a def"),
       Note(75, "B006", "Do not use mutable data structures for argument defaults"),
       Note(82, "B011", "Do not use assert with a tuple, it's always True"),
       Note(88, "", "Duplicate key") >>

MypyAnnotations ==
    << Note(9, "error", "Incompatible return value type"),
       Note(18, "error", "Argument 1 has incompatible type"),
       Note(24, "error", "Missing return statement"),
       Note(30, "error", "Incompatible types in assignment"),
       Note(35, "error", "has no attribute"),
       Note(41, "error", "Argument 1 has incompatible type"),
       Note(47, "error", "Incompatible types in assignment"),
       Note(52, "error", "Unsupported operand types for +"),
       Note(57, "error", "Incompatible return type"),
       Note(68, "error", "has no attribute"),
       Note(78, "error", "Argument 1 incompatible with supertype"),
       Note(91, "error", "Incompatible types in assignment"),
       Note(103, "", "Missing draw method"),
       Note(112, "error", "Argument 1 has incompatible type"),
       Note(120, "error", "Incompatible types"),
       Note(133, "error", "Missing key"),
       Note(134, "error", "has no key"),
       Note(147, "error", "Missing type annotation"),
       Note(156, "error", "Incompatible types") >>

\* (variant: the two TypedDict errors are recorded on one line)
AnnotationsOf_TwoOnOneLine(f) ==
    IF f = "ruff" THEN RuffAnnotations
    ELSE [i \in DOMAIN MypyAnnotations |->
            IF MypyAnnotations[i].line = 134
            THEN Note(133, "error", "has no key") ELSE MypyAnnotations[i]]

AnnotationsOf(f) == IF f = "ruff" THEN RuffAnnotations ELSE MypyAnnotations

\* the diagnostic class a comment records: the rule code for the linter, the
\* message for the type checker (and for a comment without a code)
ClassOf(a) == IF a.tag \in {"", "error"} THEN a.msg ELSE a.tag

\* the comments inside example e of file f
NotesIn(f, e) ==
    {AnnotationsOf(f)[i] : i \in {j \in DOMAIN AnnotationsOf(f) :
        AnnotationsOf(f)[j].line \in e.first..e.last}}

\* ------------------------------------------ what the lines really hold
\* A line of ruff-issues.py: its construct, what can be said of it, the spaces
\* before and after its operator, and the blank lines before a top-level def.
Ln(c, g, b, a, n) == [c |-> c, tags |-> g, before |-> b, after |-> a, blank |-> n]
Plain == Ln("plain", {}, 1, 1, 0)
Tagged(c, g) == Ln(c, g, 1, 1, 0)
Oper(c, g, b, a) == Ln(c, g, b, a, 0)
TopDef(c, g, n) == Ln(c, g \cup {"top_level"}, 1, 1, n)

RuffLines ==
    4 :> Tagged("import_from", {"star"}) @@
    6 :> Tagged("comment", {"long"}) @@
    8 :> TopDef("def", {"name_lower"}, 1) @@
    10 :> Oper("assign", {"local"}, 0, 0) @@
    11 :> Oper("assign", {"local"}, 1, 0) @@
    12 :> Oper("assign", {"local"}, 0, 1) @@
    13 :> Oper("compare", {"eq"}, 0, 0) @@
    15 :> Oper("binop", {}, 0, 0) @@
    18 :> TopDef("class", {"name_lower_initial"}, 2) @@
    19 :> Tagged("def", {"method", "name_lower"}) @@
    20 :> Oper("assign", {"self_attribute"}, 1, 1) @@
    22 :> Tagged("def", {"method"}) @@
    26 :> TopDef("def", {"name_lower"}, 2) @@
    27 :> Oper("assign", {"local", "unused"}, 1, 1) @@
    28 :> Oper("assign", {"local"}, 1, 1) @@
    32 :> TopDef("def", {"name_lower"}, 2) @@
    34 :> Tagged("call", {"after_return"}) @@
    38 :> TopDef("def", {"name_lower"}, 2) @@
    41 :> Oper("assign", {"module_scope", "name_upper"}, 1, 1) @@
    42 :> Oper("assign", {"module_scope"}, 1, 1) @@
    46 :> TopDef("def", {"name_lower"}, 2) @@
    47 :> Oper("compare", {"eq", "rhs_none"}, 1, 1) @@
    49 :> Oper("compare", {"eq", "rhs_true"}, 1, 1) @@
    51 :> Oper("compare", {"eq", "lhs_type_call"}, 1, 1) @@
    56 :> TopDef("def", {"name_lower"}, 2) @@
    57 :> Oper("assign", {"local", "unused", "rhs_string"}, 1, 1) @@
    58 :> Oper("assign", {"local", "rhs_string"}, 1, 1) @@
    63 :> Oper("assign", {"module_scope", "rhs_lambda"}, 1, 1) @@
    67 :> TopDef("def", {"name_lower"}, 2) @@
    68 :> Tagged("try", {}) @@
    70 :> Tagged("except", {"exception_named"}) @@
    75 :> TopDef("def", {"name_lower", "param_equals_unspaced",
                         "param_default_mutable"}, 2) @@
    76 :> Tagged("call", {}) @@
    81 :> TopDef("def", {"name_lower"}, 2) @@
    82 :> Tagged("assert", {"tuple_test"}) @@
    86 :> Oper("assign", {"module_scope", "rhs_dict"}, 1, 1) @@
    87 :> Tagged("dict_entry", {}) @@
    88 :> Tagged("dict_entry", {"key_repeated"})

RuffFact(l) == IF l \in DOMAIN RuffLines THEN RuffLines[l] ELSE Plain

Operators == {"assign", "compare", "binop"}

\* The linter's rules, each as the fixture's own comment words it: the rule
\* fires on a line that holds what the comment describes.
RuffRule(code, x) ==
    CASE code = "F403" -> x.c = "import_from" /\ "star" \in x.tags
      [] code = "E501" -> "long" \in x.tags
      [] code = "E251" -> x.c = "def" /\ "param_equals_unspaced" \in x.tags
      [] code = "E225" -> x.c \in Operators /\ (x.before = 0 \/ x.after = 0)
      [] code = "E221" -> x.c \in Operators /\ x.before > 1
      [] code = "E222" -> x.c \in Operators /\ x.after = 0
      [] code = "N801" -> x.c = "class" /\ "name_lower_initial" \in x.tags
      [] code = "N815" -> x.c = "assign" /\ "class_scope" \in x.tags
      [] code = "N802" -> x.c = "def" /\ "name_lower" \notin x.tags
      [] code = "F841" -> x.c = "assign" /\ {"local", "unused"} \subseteq x.tags
      [] code = "F821" -> "after_return" \in x.tags
      [] code = "E302" -> "top_level" \in x.tags /\ x.blank < 2
      [] code = "N816" -> x.c = "assign" /\ "module_scope" \in x.tags
                          /\ "name_upper" \notin x.tags
      [] code = "E711" -> x.c = "compare" /\ {"eq", "rhs_none"} \subseteq x.tags
      [] code = "E712" -> x.c = "compare" /\ {"eq", "rhs_true"} \subseteq x.tags
      [] code = "E721" -> x.c = "compare" /\ "lhs_type_call" \in x.tags
      [] code = "F541" -> {"rhs_string", "fprefix"} \subseteq x.tags
                          /\ "placeholders" \notin x.tags
      [] code = "E731" -> x.c = "assign" /\ "rhs_lambda" \in x.tags
      [] code = "Bare except" -> x.c = "except" /\ "exception_named" \notin x.tags
      [] code = "B006" -> x.c = "def" /\ "param_default_mutable" \in x.tags
      [] code = "B011" -> x.c = "assert" /\ "tuple_test" \in x.tags
      [] code = "Duplicate key" -> x.c = "dict_entry" /\ "key_repeated" \in x.tags

RuffCategories ==
    {"F403", "E501", "E251", "E225", "E221", "E222", "N801", "N815", "N802",
     "F841", "F821", "E302", "N816", "E711", "E712", "E721", "F541", "E731",
     "Bare except", "B006", "B011", "Duplicate key"}

\* A line of mypy-issues.py: its construct, the type it has, the type wanted.
Ty(c, g, w) == [c |-> c, got |-> g, want |-> w]

MypyLines ==
    9 :> Ty("return", "int", "str") @@
    18 :> Ty("call_arg", "int", "str") @@
    22 :> Ty("function_end", "None", "int") @@
    29 :> Ty("assign", "str", "str") @@
    30 :> Ty("assign", "int", "str") @@
    35 :> Ty("attribute", "Optional[str]", "str") @@
    40 :> Ty("assign", "List[int]", "List[int]") @@
    41 :> Ty("call_arg", "str", "int") @@
    46 :> Ty("assign", "Dict[str, int]", "Dict[str, int]") @@
    47 :> Ty("assign", "str", "int") @@
    52 :> Ty("binop", "Union[int, str]", "int") @@
    57 :> Ty("lambda_return", "int", "str") @@
    63 :> Ty("assign", "int", "int") @@
    67 :> Ty("assign", "MyClass", "MyClass") @@
    68 :> Ty("attribute", "MyClass", "") @@
    74 :> Ty("return", "str", "str") @@
    78 :> Ty("override", "str", "int") @@
    79 :> Ty("return", "int", "int") @@
    89 :> Ty("return", "T", "T") @@
    91 :> Ty("assign", "int", "str") @@
    112 :> Ty("call_arg", "Circle", "Drawable") @@
    120 :> Ty("assign", "Literal['execute']", "Literal['read', 'write']") @@
    133 :> Ty("typeddict_literal", "name", "name, age") @@
    134 :> Ty("typeddict_setitem", "height", "name, age") @@
    147 :> Ty("def_unannotated", "", "annotation") @@
    155 :> Ty("assign", "List[int]", "List[int]") @@
    156 :> Ty("assign", "List[int]", "List[object]")

MypyFact(l) == IF l \in DOMAIN MypyLines THEN MypyLines[l] ELSE Ty("plain", "", "")

\* the construct each message of the type checker is about
MypyConstruct(msg) ==
    CASE msg = "Incompatible return value type" -> "return"
      [] msg = "Argument 1 has incompatible type" -> "call_arg"
      [] msg = "Missing return statement" -> "function_end"
      [] msg = "Incompatible types in assignment" -> "assign"
      [] msg = "has no attribute" -> "attribute"
      [] msg = "Unsupported operand types for +" -> "binop"
      [] msg = "Incompatible return type" -> "lambda_return"
      [] msg = "Argument 1 incompatible with supertype" -> "override"
      [] msg = "Missing key" -> "typeddict_literal"
      [] msg = "has no key" -> "typeddict_setitem"
      [] msg = "Missing type annotation" -> "def_unannotated"

\* the type checker reports a message where the construct's type is not the
\* type wanted
MypyRule(msg, x) == x.c = MypyConstruct(msg) /\ x.got # x.want

MypyCategories ==
    {"Incompatible return value type", "Argument 1 has incompatible type",
     "Missing return statement", "Incompatible types in assignment",
     "has no attribute", "Unsupported operand types for +",
     "Incompatible return type", "Argument 1 incompatible with supertype",
     "Missing key", "has no key", "Missing type annotation"}

Categories(f) == IF f = "ruff" THEN RuffCategories ELSE MypyCategories

Trigger(f, cat, l) ==
    IF f = "ruff" THEN RuffRule(cat, RuffFact(l)) ELSE MypyRule(cat, MypyFact(l))

\* a reported category matches a recorded one when it is the same, or when
\* the recorded message is the shorter "Incompatible types" of lines 120, 156
Matches(recorded, cat) ==
    \/ cat = recorded
    \/ recorded = "Incompatible types" /\ cat = "Incompatible types in assignment"

\* the diagnostics the tool reports for the snippet of example e
Report(f, e) ==
    {d \in [line : e.first..e.last, cat : Categories(f)] : Trigger(f, d.cat, d.line)}

\* The tool analyses the next example of file f.
AnalyseExample(f) ==
    /\ cursor[f] < Len(Examples(f))
    /\ cursor' = [cursor EXCEPT ![f] = @ + 1]
    /\ diags' = [diags EXCEPT ![f] = @ \cup Report(f, Examples(f)[cursor[f] + 1])]
    /\ UNCHANGED runVars

\* the diagnostics reported so far inside example e of file f
DiagsIn(f, e) == {d \in diags[f] : d.line \in e.first..e.last}

\* the examples of file f analysed so far
Analysed(f) == {Examples(f)[i] : i \in 1..cursor[f]}

\* The tool is run on file f again.
Reanalyse(f) ==
    /\ cursor[f] = Len(Examples(f))
    /\ cursor' = [cursor EXCEPT ![f] = 0]
    /\ diags' = [diags EXCEPT ![f] = {}]
    /\ UNCHANGED runVars

\* ------------------------------------------------------- specification

Init ==
    /\ pc = [m \in Modules |-> 0]
    /\ bound = [m \in Modules |-> {}]
    /\ vals = [n \in DataGlobals |-> NoValue]
    /\ heap = <<>>
    /\ defaults = 0
    /\ stdout = <<>>
    /\ loadCalls = [m \in Modules |-> 0]
    /\ loadExc = [m \in Modules |-> "none"]
    /\ last = [fn |-> "", arg |-> NoValue, ret |-> NoValue, exc |-> "none"]
    /\ noArgCalls = 0
    /\ cursor = [f \in Files |-> 0]
    /\ diags = [f \in Files |-> {}]

Next ==
    \/ \E m \in Modules : LoadStep(m)
    \/ Call_badly_formatted_function
    \/ Call_badlyNamedClass
    \/ Call_BadMethodName
    \/ Call_unused_variable_function
    \/ Call_unreachable_code
    \/ Call_missing_blank_lines
    \/ Call_comparison_issues
    \/ Call_fstring_issues
    \/ Call_square
    \/ Call_bare_except_handler
    \/ Call_assert_tuple
    \/ Call_mutable_default_NoArg
    \/ \E i \in 1..MaxObjs : Call_mutable_default_With(i)
    \/ \E c \in FreshLists : Call_mutable_default_Fresh(c)
    \/ Call_mutable_default_None
    \/ Call_returns_wrong_type
    \/ Call_expects_string
    \/ Call_call_with_wrong_type
    \/ Call_missing_return
    \/ Call_incompatible_assignment
    \/ Call_none_issues
    \/ Call_list_type_issues
    \/ Call_dict_type_issues
    \/ Call_union_issues
    \/ Call_callable_issues
    \/ Call_MyClass
    \/ Call_attribute_issues
    \/ Call_Base_method
    \/ Call_Derived_method
    \/ Call_generic_issues
    \/ Call_Drawable_draw
    \/ Call_Circle
    \/ Call_draw_shape
    \/ Call_protocol_violation
    \/ Call_literal_issues
    \/ Call_typeddict_issues
    \/ Call_process
    \/ Call_variance_issues

\* Python loads the files and callers call what they define.
Spec == Init /\ [][Next]_vars

NextCorpus ==
    \/ \E f \in Files : AnalyseExample(f)
    \/ \E f \in Files : Reanalyse(f)

\* The external tools are run over the files, example by example.
SpecCorpus == Init /\ [][NextCorpus]_vars

\* =================================================================== claims
\* ----------------------------------------------------------------------- C1
\* C1: for every example the tool has analysed, every comment that records a
\* diagnostic kind is matched by a reported diagnostic of that category.
C1_RecordedCategoryReported ==
    \A f \in Files : \A e \in Analysed(f) :
        \A a \in {n \in NotesIn(f, e) : n.tag # ""} :
            \E d \in DiagsIn(f, e) : Matches(ClassOf(a), d.cat)

\* ----------------------------------------------------------------------- C2
\* C2: for every example the tool has analysed, at least one diagnostic was
\* reported inside its snippet.
C2_SomeDiagnostic ==
    \A f \in Files : \A e \in Analysed(f) : DiagsIn(f, e) # {}

\* ----------------------------------------------------------------------- C3
\* C3: every example the tool is given holds a comment, and every comment
\* inside its snippet names a diagnostic kind (a rule code or "error").
C3_EveryExampleAnnotated ==
    \A f \in Files : \A e \in Analysed(f) :
        /\ NotesIn(f, e) # {}
        /\ \A a \in NotesIn(f, e) : a.tag # ""

\* ----------------------------------------------------------------------- C6
\* the diagnostic classes the comments of example e record
C6_Classes(f, e) == {ClassOf(a) : a \in NotesIn(f, e)}

\* C6 as stated: no example is annotated with two different diagnostic
\* classes.
C6_OneClassPerExample ==
    \A f \in Files : \A e \in Analysed(f) : Cardinality(C6_Classes(f, e)) <= 1

\* the lines of the four scenarios: return 42, the second "key" entry, the
\* parameter items=[], and x == None
C6_ScenarioLines == {<<"mypy", 9>>, <<"ruff", 88>>, <<"ruff", 75>>, <<"ruff", 47>>}

\* the comments of file f written on line l
C6_NotesOn(f, l) ==
    {i \in DOMAIN AnnotationsOf(f) : AnnotationsOf(f)[i].line = l}

\* C6, amended: in every example the tool is given, each annotated line
\* records exactly one diagnostic class, and each of the four scenario lines
\* carries exactly one comment; an example as a whole may record several
\* classes on its lines.
C6_OneClassPerLine ==
    \A f \in Files : \A e \in Analysed(f) : \A l \in e.first..e.last :
        /\ Cardinality(C6_NotesOn(f, l)) <= 1
        /\ <<f, l>> \in C6_ScenarioLines => Cardinality(C6_NotesOn(f, l)) = 1

\* comparison_issues has been analysed: three classes recorded, three reported
C6_Witness ==
    /\ cursor["ruff"] >= 9
    /\ C6_Classes("ruff", RuffExamples[9]) = {"E711", "E712", "E721"}
    /\ {d.cat : d \in DiagsIn("ruff", RuffExamples[9])} = {"E711", "E712", "E721"}

\* ----------------------------------------------------------------------- C5
\* C5 as the spec states it: no step of the snippets writes output or changes
\* a list that was alive before the step.
C5_NoEffects ==
    [][/\ stdout' = stdout
       /\ \A i \in DOMAIN heap : heap'[i] = heap[i]]_vars

\* C5, amended: loading writes nothing and changes no list; of the calls, only
\* expects_string and call_with_wrong_type (which calls it) write output, one
\* line each, and only mutable_default changes a list that outlives the call;
\* attribute_issues and draw_shape raise before any output.
C5_EffectsOnlyWhere ==
    [][/\ stdout' # stdout =>
            /\ pc' = pc
            /\ last'.fn \in {"expects_string", "call_with_wrong_type"}
            /\ Len(stdout') = Len(stdout) + 1
       /\ (\E i \in DOMAIN heap : heap'[i] # heap[i]) =>
            /\ pc' = pc
            /\ last'.fn = "mutable_default"]_vars

\* both effects have happened
C5_Witness ==
    /\ last.fn = "mutable_default"
    /\ stdout # <<>>
    /\ defaults # 0
    /\ heap[defaults] # <<>>

\* ----------------------------------------------------------------------- C7
\* the names the top level of each file binds by def, class and assignment
C7_Names(m) ==
    IF m = "ruff"
    THEN {"badly_formatted_function", "badlyNamedClass", "unused_variable_function",
          "unreachable_code", "missing_blank_lines", "CONSTANT", "constant_lowercase",
          "comparison_issues", "fstring_issues", "square", "bare_except_handler",
          "mutable_default", "assert_tuple", "duplicate_dict"}
    ELSE {"returns_wrong_type", "expects_string", "call_with_wrong_type",
          "missing_return", "incompatible_assignment", "none_issues",
          "list_type_issues", "dict_type_issues", "union_issues", "callable_issues",
          "MyClass", "attribute_issues", "Base", "Derived", "generic_issues",
          "Drawable", "Circle", "draw_shape", "protocol_violation", "literal_issues",
          "Person", "typeddict_issues", "process", "variance_issues"}

C7_Imported(m) ==
    IF m = "ruff" THEN {"collections.*"}
    ELSE {"List", "Dict", "Optional", "Union", "Callable", "Protocol", "Literal",
          "TypedDict", "overload"}

\* C7: running the top level of either file calls no function the file
\* defines, raises nothing, writes nothing, can always take its next step
\* until the last statement has run, and leaves exactly the imported names
\* and the functions, classes and data globals bound.
C7_LoadOnlyBinds ==
    \A m \in Modules :
        /\ loadCalls[m] = 0
        /\ loadExc[m] = "none"
        /\ last.fn = "" => stdout = <<>>
        /\ pc[m] < Len(TopLevel(m)) => ENABLED LoadStep(m)
        /\ bound[m] \subseteq C7_Names(m) \cup C7_Imported(m)
        /\ Loaded(m) => bound[m] = C7_Names(m) \cup C7_Imported(m)

\* both files have run to their end and nothing has been called yet
C7_Witness == Loaded("ruff") /\ Loaded("mypy") /\ last.fn = ""

\* ----------------------------------------------------------------------- C8
\* C8 as stated: the default list holds exactly as many ones as there were
\* calls without an argument (the n-th such call returns n ones, and calls
\* with an explicit list leave the default list alone).
C8_DefaultCountsNoArgCalls ==
    /\ defaults # 0 => heap[defaults] = [k \in 1..noArgCalls |-> 1]
    /\ (last.fn = "mutable_default" /\ last.arg = NoValue) => last.ret = PyRef(defaults)

\* the step is a call of mutable_default that works on the default list
C8_OnDefault == Call_mutable_default_NoArg \/ Call_mutable_default_With(defaults)

\* C8, amended: every call that works on the default list (made without an
\* argument, or passed the default list itself) appends one 1 to that single
\* list and returns it; every other step leaves the default list unchanged; a
\* call with an explicit list that is another object appends one 1 to that
\* list and changes no other list.
C8_DefaultSharedByAliases ==
    [][defaults # 0 =>
         /\ IF C8_OnDefault
            THEN /\ heap'[defaults] = Append(heap[defaults], 1)
                 /\ last'.ret = PyRef(defaults)
            ELSE heap'[defaults] = heap[defaults]
         /\ \A i \in DOMAIN heap \ {defaults} :
                Call_mutable_default_With(i) =>
                    /\ heap'[i] = Append(heap[i], 1)
                    /\ \A j \in DOMAIN heap \ {i} : heap'[j] = heap[j]
         /\ \A c \in FreshLists :
                Call_mutable_default_Fresh(c) =>
                    /\ heap' = Append(heap, Append(c, 1))
         /\ \A k \in DOMAIN heap'[defaults] : heap'[defaults][k] = 1]_vars

\* the default list was passed back in, and a caller's own list was used too
C8_Witness ==
    /\ defaults # 0
    /\ Len(heap[defaults]) > noArgCalls
    /\ Len(heap) >= 2
    /\ last.fn = "mutable_default"

\* ----------------------------------------------------------------------- C9
\* C9: once the top level of ruff-issues.py has run, duplicate_dict holds
\* exactly one entry, "key" -> 2; the value 1 is nowhere in it.
C9_LastDuplicateWins ==
    Loaded("ruff") =>
        /\ vals["duplicate_dict"][1] = "dict"
        /\ Len(vals["duplicate_dict"][2]) = 1
        /\ DictGet(vals["duplicate_dict"][2], "key") = PyInt(2)
        /\ \A i \in DOMAIN vals["duplicate_dict"][2] :
               vals["duplicate_dict"][2][i][2] # PyInt(1)

C9_Witness == Loaded("ruff") /\ vals["duplicate_dict"] # NoValue

\* ---------------------------------------------------------------------- C10
\* C10: returns_wrong_type returns the int 42; missing_return returns None;
\* none_issues returns a string exactly when its argument is one and raises,
\* returning nothing, for None; union_issues returns x + 1 for an int and
\* raises for a string.
C10_AnnotationsNotHonoured ==
    /\ last.fn = "returns_wrong_type" =>
           last.exc = "none" /\ last.ret = <<"int", 42>>
    /\ last.fn = "missing_return" =>
           last.exc = "none" /\ last.ret = PyNone
    /\ last.fn = "none_issues" =>
           /\ (last.ret[1] = "str") <=> (last.arg[1] = "str")
           /\ last.arg[1] = "str" =>
                  last.exc = "none" /\ Len(last.ret[2]) = Len(last.arg[2])
           /\ last.arg = PyNone =>
                  last.exc = "AttributeError" /\ last.ret = NoValue
    /\ last.fn = "union_issues" =>
           /\ last.arg[1] = "int" =>
                  last.exc = "none" /\ last.ret = <<"int", last.arg[2] + 1>>
           /\ last.arg[1] = "str" =>
                  last.exc # "none" /\ last.ret = NoValue

\* none_issues was called with None
C10_Witness ==
    last.fn = "none_issues" /\ last.arg = PyNone /\ last.exc = "AttributeError"

=============================================================================
